---- MODULE Spec2Model ----
(***************************************************************************)
(* Search subsystem of the EazyFind backend (package handlers):            *)
(* ParseSearchParams, BuildSearchQueries, SearchHandler and                *)
(* GetRestaurantsByCityHandler, as a state machine of one HTTP request;    *)
(* and the geocoding worker (package worker): the ticker loop, the two     *)
(* batch functions and the goroutines they start.                          *)
(*                                                                         *)
(* Representation.                                                         *)
(*   - A query parameter the code parses (numbers, comma lists) is a       *)
(*     sequence of one-character strings, so that strconv.Atoi,            *)
(*     strconv.ParseFloat, strings.Split and strings.TrimSpace are         *)
(*     computed character by character.  A parameter the code only tests   *)
(*     for emptiness, compares or passes on is a TLA+ string.              *)
(*   - A float64 is [nan |-> BOOLEAN, v |-> Int], v in units of 1/FScale.  *)
(*   - An element of the argument vector is a one-field record: [s |-> _]  *)
(*     a string, [cs |-> _] a character sequence, [i |-> _] an int,        *)
(*     [f |-> _] a float64.                                                *)
(*   - A WHERE conjunct is [kind |-> _, ph |-> _]: which SQL fragment it   *)
(*     is and the placeholder indices ($n) it prints, in textual order.    *)
(*   - A goroutine of the worker is counted in gor[r][stage]: how many     *)
(*     goroutines started for record r stand at that stage of the closure. *)
(***************************************************************************)
EXTENDS Integers, Sequences, FiniteSets, TLC

VARIABLES
    query,       \* url.Values of the request (raw parameter strings)
    pathCity,    \* r.PathValue("city") of a city-listing request
    pc,          \* position of the handler
    p,           \* SearchParams
    countQ,      \* count query template
    resultQ,     \* fetch query template
    args,        \* argument vector
    totalCount,  \* SearchHandler: totalCount
    totalPages,  \* SearchHandler: totalPages
    finalQuery,  \* the query handed to db.Query
    inflight,    \* database round trips issued and not yet returned
    dbLog,       \* database round trips issued so far, in order
    dbResults,   \* how each returned round trip ended: "ok" or "error"
    rows,        \* what the fetch returned: per row, whether Scan succeeds
    response,    \* what was written to the http.ResponseWriter
    ticks,       \* worker: ticks buffered in ticker.C (a channel of capacity 1)
    batch,       \* worker: the batch function the ticker loop is in, or "none"
    wpc,         \* worker: position of the ticker loop inside it
    cursor,      \* worker: rows of the batch not yet dispatched
    wg,          \* worker: counter of the sync.WaitGroup
    semaphore,   \* worker: elements buffered in the semaphore channel
    gor,         \* worker: the goroutines, per record and stage
    geoStatus    \* worker: geo_status of each record

handlerVars == <<query, pathCity, pc, p, countQ, resultQ, args, totalCount,
                 totalPages, finalQuery, inflight, dbLog, dbResults, rows, response>>

workerVars == <<ticks, batch, wpc, cursor, wg, semaphore, gor, geoStatus>>

vars == <<handlerVars, workerVars>>

----------------------------------------------------------------------------
(* Bounds of the model *)

\* a filter set carries at most this many of the independent filters
MaxFilters == 2
\* a request of the handler runs carries at most this many parameters
MaxReqParams == 3
\* largest COUNT(*) the database answers
MaxCount == 25
\* most rows the fetch returns
MaxRows == 2
\* records of each table (cities, restaurants) that wait for coordinates
MaxPending == 3
\* rows of one batch: the LIMIT of the worker's queries (200 in the source)
MaxBatch == 2
\* capacity of the worker's semaphore channel (50 in the source)
MaxPool == 1

(* Program constants *)

DefaultLimit == 12
\* width of Go's int on the modelled target (32 bits on GOARCH=386 or arm;
\* on a 64-bit target strconv.Atoi saturates and the offset wraps the same
\* way, at 2^63)
IntBits == 32
\* units per 1.0 of the fixed-point float64
FScale == 100

RECURSIVE Pow2(_)
Pow2(n) == IF n = 0 THEN 1 ELSE 2 * Pow2(n - 1)

IntMax == (Pow2(IntBits - 2) - 1) + Pow2(IntBits - 2)
IntMin == (-IntMax) - 1

----------------------------------------------------------------------------
(* strconv, strings *)

Digits == <<"0", "1", "2", "3", "4", "5", "6", "7", "8", "9">>

IsDigit(c) == \E d \in 1..10 : Digits[d] = c
DigitVal(c) == (CHOOSE d \in 1..10 : Digits[d] = c) - 1
AllDigits(s) == \A j \in 1..Len(s) : IsDigit(s[j])

\* the value of a digit string, continuing from acc (used below IntMax only)
RECURSIVE Magnitude(_, _)
Magnitude(s, acc) ==
    IF s = <<>> THEN acc
    ELSE IF acc > (IntMax - DigitVal(Head(s))) \div 10 THEN IntMax
    ELSE Magnitude(Tail(s), acc * 10 + DigitVal(Head(s)))

\* whether the value of a digit string exceeds IntMax
RECURSIVE Overflows(_, _)
Overflows(s, acc) ==
    IF s = <<>> THEN FALSE
    ELSE IF acc > (IntMax - DigitVal(Head(s))) \div 10 THEN TRUE
    ELSE Overflows(Tail(s), acc * 10 + DigitVal(Head(s)))

\* strconv.Atoi with the error discarded: 0 on a syntax error, the nearest
\* representable int on a range error
Atoi(s) ==
    LET signed == s # <<>> /\ Head(s) \in {"+", "-"}
        neg    == signed /\ Head(s) = "-"
        body   == IF signed THEN Tail(s) ELSE s
    IN  IF body = <<>> \/ ~AllDigits(body) THEN 0
        ELSE IF Overflows(body, 0) THEN (IF neg THEN IntMin ELSE IntMax)
        ELSE IF neg THEN -Magnitude(body, 0) ELSE Magnitude(body, 0)

FZero == [nan |-> FALSE, v |-> 0]
FNum(n) == [nan |-> FALSE, v |-> n]
FNaN == [nan |-> TRUE, v |-> 0]

\* float64 comparisons (every comparison with NaN is false)
FGt0(x) == ~x.nan /\ x.v > 0
FLe0(x) == ~x.nan /\ x.v <= 0

\* strconv.ParseFloat(s, 64) with the error discarded, for the inputs of the
\* model: an optionally signed decimal integer below IntMax / FScale, or NaN;
\* 0 on a syntax error
ParseFloat(s) ==
    LET signed == s # <<>> /\ Head(s) \in {"+", "-"}
        body   == IF signed THEN Tail(s) ELSE s
    IN  IF body = <<"N", "a", "N">> THEN FNaN
        ELSE IF body = <<>> \/ ~AllDigits(body) THEN FZero
        ELSE LET m == Magnitude(body, 0) * FScale
             IN  FNum(IF signed /\ Head(s) = "-" THEN -m ELSE m)

\* strings.Split(s, ",")
RECURSIVE SplitFrom(_, _)
SplitFrom(s, cur) ==
    IF s = <<>> THEN <<cur>>
    ELSE IF Head(s) = "," THEN <<cur>> \o SplitFrom(Tail(s), <<>>)
    ELSE SplitFrom(Tail(s), Append(cur, Head(s)))

Split(s) == SplitFrom(s, <<>>)

RECURSIVE TrimLeft(_)
TrimLeft(s) == IF s # <<>> /\ Head(s) = " " THEN TrimLeft(Tail(s)) ELSE s

RECURSIVE TrimRight(_)
TrimRight(s) ==
    IF s # <<>> /\ s[Len(s)] = " " THEN TrimRight(SubSeq(s, 1, Len(s) - 1)) ELSE s

\* strings.TrimSpace
TrimSpace(s) == TrimRight(TrimLeft(s))

\* a * b in Go's int: the product modulo 2^IntBits, as a signed value
\* (a >= 0 and 0 <= b < 2^10, computed in two halves of IntBits/2 bits)
MulWrap(a, b) ==
    LET half == Pow2(IntBits \div 2)
        lo   == (a % half) * b
        hi   == ((a \div half) * b + lo \div half) % half
        shi  == IF hi >= half \div 2 THEN hi - half ELSE hi
    IN  shi * half + (lo % half)

----------------------------------------------------------------------------
(* The request: url.Values *)

\* the keys ParseSearchParams reads, and "mealtype", which the interface lists
ParsedKeys == {"page", "minCost", "min_cost", "maxCost", "max_cost", "rating",
               "discount", "cuisineIds", "mealtypeIds", "cuisines", "mealtypes",
               "lat", "lon", "radius"}
OpaqueKeys == {"name", "q", "free", "city", "area", "cuisine", "meal_type",
               "mealtype", "sort"}
Keys == ParsedKeys \cup OpaqueKeys

\* url.Values.Get of a key that is absent (or empty)
Absent(k) == IF k \in ParsedKeys THEN <<>> ELSE ""

EmptyQuery == [k \in Keys |-> Absent(k)]

\* the geographic and sort keys, whose predicates depend on one another
CoreKeys == {"lat", "lon", "radius", "city", "sort"}
\* the keys of the independent filters
FilterKeys == Keys \ (CoreKeys \cup {"page"})
\* the keys the requests of the handler runs are composed of
ReqKeys == {"page", "sort", "city", "lat", "lon", "name"}

\* comma-separated lists of names ("I, M , T") and of ids
NameLists == {<<"I">>, <<" ", "M">>, <<"I", ",", " ", "M", " ", ",", " ", "T">>}
IdLists == {<<"7">>, <<"7", ",", " ", "9">>}

\* the non-empty values a request gives each key
Values(k) ==
    CASE k = "page"      -> {<<"1">>, <<"2">>, <<"3">>, <<"1", "0">>, <<"0">>,
                             <<"-", "1">>, <<"x">>,
                             <<"9", "9", "9", "9", "9", "9", "9", "9", "9", "9">>}
      [] k = "minCost"   -> {<<"1", "0", "0">>, <<"0">>}
      [] k = "min_cost"  -> {<<"5", "0">>}
      [] k = "maxCost"   -> {<<"9", "0", "0">>, <<"x">>}
      [] k = "max_cost"  -> {<<"8", "0", "0">>}
      [] k = "rating"    -> {<<"4">>, <<"N", "a", "N">>}
      [] k = "discount"  -> {<<"2", "0">>, <<"-", "5">>}
      [] k = "lat"       -> {<<"1", "8">>}
      [] k = "lon"       -> {<<"7", "3">>}
      [] k = "radius"    -> {<<"-", "5">>, <<"1", "0", "0">>, <<"N", "a", "N">>}
      [] k \in {"cuisines", "mealtypes"} -> NameLists
      [] k \in {"cuisineIds", "mealtypeIds"} -> IdLists
      [] k = "name"      -> {"pizza"}
      [] k = "q"         -> {"cafe"}
      [] k = "free"      -> {"true", "1"}
      [] k = "city"      -> {"Pune"}
      [] k = "area"      -> {"Baner"}
      [] k = "cuisine"   -> {"Thai"}
      [] k = "meal_type" -> {"Lunch"}
      [] k = "mealtype"  -> {"Dinner"}
      [] k = "sort"      -> {"discount", "rating_desc", "cost_asc", "popular"}

Supplied(q) == {k \in Keys : q[k] # Absent(k)}

\* the order in which a client writes the parameters of a request
KeyOrder == <<"page", "name", "q", "minCost", "min_cost", "maxCost", "max_cost",
              "rating", "discount", "free", "city", "area", "cuisineIds",
              "mealtypeIds", "cuisine", "meal_type", "mealtype", "cuisines",
              "mealtypes", "lat", "lon", "radius", "sort">>
Position == [k \in Keys |-> CHOOSE j \in 1..Len(KeyOrder) : KeyOrder[j] = k]

----------------------------------------------------------------------------
(* ParseSearchParams *)

ParseSearchParams(q) ==
    LET page     == Atoi(q["page"])
        Page     == IF page <= 0 THEN 1 ELSE page
        minCost  == Atoi(q["minCost"])
        maxCost  == Atoi(q["maxCost"])
        d        == ParseFloat(q["discount"])
        located  == q["lat"] # <<>> /\ q["lon"] # <<>>
        radius   == ParseFloat(q["radius"])
    IN  [ Page        |-> Page,
          Limit       |-> DefaultLimit,
          Offset      |-> MulWrap(Page - 1, DefaultLimit),
          Name        |-> IF q["name"] = "" THEN q["q"] ELSE q["name"],
          MinCost     |-> IF minCost = 0 THEN Atoi(q["min_cost"]) ELSE minCost,
          MaxCost     |-> IF maxCost = 0 THEN Atoi(q["max_cost"]) ELSE maxCost,
          Rating      |-> ParseFloat(q["rating"]),
          Discount    |-> IF FGt0(d) THEN FNum(d.v \div 100) ELSE FZero,
          Free        |-> q["free"] = "true",
          City        |-> q["city"],
          Area        |-> q["area"],
          CuisineIds  |-> q["cuisineIds"],
          MealTypeIds |-> q["mealtypeIds"],
          Cuisine     |-> q["cuisine"],
          MealType    |-> q["meal_type"],
          Cuisines    |-> q["cuisines"],
          MealTypes   |-> q["mealtypes"],
          Lat         |-> IF located THEN ParseFloat(q["lat"]) ELSE FZero,
          Lon         |-> IF located THEN ParseFloat(q["lon"]) ELSE FZero,
          Radius      |-> IF ~located THEN FZero
                          ELSE IF FLe0(radius) THEN FNum(50000 * FScale)
                          ELSE radius,
          HasLocation |-> located,
          Sort        |-> q["sort"] ]

\* SearchParams before a request is parsed
NoParams == ParseSearchParams(EmptyQuery)

----------------------------------------------------------------------------
(* BuildSearchQueries *)

Cond(kind, ph) == [kind |-> kind, ph |-> ph]

\* var args, var conditions, idx := 1, distanceExpr := "0.0"
NewBuilder ==
    [ args |-> <<>>, conditions |-> <<>>, idx |-> 1,
      distanceExpr |-> Cond("0.0", <<>>) ]

\* one positional predicate: print $idx (as often as the fragment does),
\* append the argument, idx++
Bind(b, kind, ph, arg) ==
    [ b EXCEPT !.conditions = Append(@, Cond(kind, ph)),
               !.args = Append(@, arg),
               !.idx = @ + 1 ]

\* if p.HasLocation { distanceExpr ..., args += lon, lat; idx += 2; cutoff }
AddLocation(sp, b) ==
    IF sp.HasLocation
    THEN LET b1 == [ b EXCEPT
                       !.distanceExpr = Cond("ST_Distance", <<b.idx, b.idx + 1>>),
                       !.args = @ \o <<[f |-> sp.Lon], [f |-> sp.Lat]>>,
                       !.idx = @ + 2 ]
         IN  IF sp.Sort = "" \/ sp.Sort = "discount"
             THEN [ b1 EXCEPT !.conditions =
                        Append(@, Cond("ST_DWithin_100000", <<b1.idx - 2, b1.idx - 1>>)) ]
             ELSE b1
    ELSE b

\* faulty variant: the radius predicate is added by an `if` of its own
AddCityAndRadius(sp, b) ==
    LET b1 == IF sp.City # "" THEN Bind(b, "city_ILIKE", <<b.idx>>, [s |-> sp.City]) ELSE b
    IN  IF sp.HasLocation
        THEN Bind(b1, "ST_DWithin_radius", <<1, 2, b1.idx>>, [f |-> sp.Radius])
        ELSE b1

\* if p.City != "" { city } else if p.HasLocation { radius }
AddCityOrRadius(sp, b) ==
    IF sp.City # ""
    THEN Bind(b, "city_ILIKE", <<b.idx>>, [s |-> sp.City])
    ELSE IF sp.HasLocation
    THEN Bind(b, "ST_DWithin_radius", <<b.idx - 2, b.idx - 1, b.idx>>, [f |-> sp.Radius])
    ELSE b

\* faulty variant: the name predicate appends its argument and forgets idx++
AddNameStale(sp, b) ==
    IF sp.Name # ""
    THEN [ b EXCEPT !.conditions = Append(@, Cond("name_or_area_ILIKE", <<b.idx, b.idx>>)),
                    !.args = Append(@, [s |-> "%" \o sp.Name \o "%"]) ]
    ELSE b

AddName(sp, b) ==
    IF sp.Name # ""
    THEN Bind(b, "name_or_area_ILIKE", <<b.idx, b.idx>>, [s |-> "%" \o sp.Name \o "%"])
    ELSE b

AddArea(sp, b) ==
    IF sp.Area # ""
    THEN Bind(b, "area_ILIKE", <<b.idx>>, [s |-> "%" \o sp.Area \o "%"])
    ELSE b

AddCuisine(sp, b) ==
    IF sp.Cuisine # ""
    THEN Bind(b, "cuisine_name_ILIKE", <<b.idx>>, [s |-> sp.Cuisine])
    ELSE b

\* for _, e := range entries { placeholders += $idx; args += e (trimmed); idx++ }
RECURSIVE ExpandList(_, _, _, _)
ExpandList(entries, trim, b, placeholders) ==
    IF entries = <<>> THEN [b |-> b, placeholders |-> placeholders]
    ELSE ExpandList(Tail(entries), trim,
                    [ b EXCEPT !.args = Append(@, [cs |-> IF trim THEN TrimSpace(Head(entries))
                                                          ELSE Head(entries)]),
                               !.idx = @ + 1 ],
                    Append(placeholders, b.idx))

\* if raw != "" { split, expand, conditions += IN (placeholders) }
AddList(raw, kind, trim, b) ==
    IF raw # <<>>
    THEN LET r == ExpandList(Split(raw), trim, b, <<>>)
         IN  [ r.b EXCEPT !.conditions = Append(@, Cond(kind, r.placeholders)) ]
    ELSE b

AddCuisines(sp, b)    == AddList(sp.Cuisines, "cuisine_name_IN", TRUE, b)
AddCuisineIds(sp, b)  == AddList(sp.CuisineIds, "cuisine_id_IN", FALSE, b)

AddMealType(sp, b) ==
    IF sp.MealType # ""
    THEN Bind(b, "meal_type_ILIKE", <<b.idx>>, [s |-> sp.MealType])
    ELSE b

AddMealTypes(sp, b)   == AddList(sp.MealTypes, "meal_type_IN", TRUE, b)
AddMealTypeIds(sp, b) == AddList(sp.MealTypeIds, "meal_type_id_IN", FALSE, b)

AddMinCost(sp, b) ==
    IF sp.MinCost > 0 THEN Bind(b, "cost_for_two_GE", <<b.idx>>, [i |-> sp.MinCost]) ELSE b

AddMaxCost(sp, b) ==
    IF sp.MaxCost > 0 THEN Bind(b, "cost_for_two_LE", <<b.idx>>, [i |-> sp.MaxCost]) ELSE b

AddRating(sp, b) ==
    IF FGt0(sp.Rating) THEN Bind(b, "rating_GE", <<b.idx>>, [f |-> sp.Rating]) ELSE b

AddDiscount(sp, b) ==
    IF FGt0(sp.Discount)
    THEN Bind(b, "effective_discount_GE", <<b.idx>>, [f |-> sp.Discount])
    ELSE b

AddFree(sp, b) ==
    IF sp.Free THEN [ b EXCEPT !.conditions = Append(@, Cond("free_true", <<>>)) ] ELSE b

\* faulty variant: the duplicate exclusion is put in front of the other conjuncts
AddNotDuplicateFirst(b) ==
    [ b EXCEPT !.conditions = <<Cond("is_duplicate_false", <<>>)>> \o @ ]

\* conditions = append(conditions, "r.is_duplicate = false")
AddNotDuplicate(b) ==
    [ b EXCEPT !.conditions = Append(@, Cond("is_duplicate_false", <<>>)) ]

\* the builder after the last append
Built(sp) ==
    AddNotDuplicate(
    AddFree(sp, AddDiscount(sp, AddRating(sp, AddMaxCost(sp, AddMinCost(sp,
    AddMealTypeIds(sp, AddMealTypes(sp, AddMealType(sp,
    AddCuisineIds(sp, AddCuisines(sp, AddCuisine(sp,
    AddArea(sp, AddName(sp, AddCityOrRadius(sp, AddLocation(sp, NewBuilder))))))))))))))))

\* countQuery := "SELECT COUNT(*) FROM restaurants r " + whereStr
CountQuery(b) ==
    [ select |-> "COUNT(*)", distance |-> Cond("none", <<>>), where |-> b.conditions ]

\* resultQuery := SELECT fields, distanceExpr as distance, ... FROM restaurants r whereStr
ResultQuery(b) ==
    [ select |-> "selectFields", distance |-> b.distanceExpr, where |-> b.conditions ]

BuildSearchQueries(sp) ==
    LET b == Built(sp)
    IN  [ countQuery |-> CountQuery(b), resultQuery |-> ResultQuery(b), args |-> b.args ]

\* the placeholder indices a predicate list prints
RECURSIVE CondPlaceholders(_)
CondPlaceholders(cs) ==
    IF cs = <<>> THEN {}
    ELSE {Head(cs).ph[j] : j \in 1..Len(Head(cs).ph)} \cup CondPlaceholders(Tail(cs))

\* the placeholder indices a query template prints
Placeholders(qt) == CondPlaceholders(<<qt.distance>>) \cup CondPlaceholders(qt.where)

\* a template before a request is handled
NoQuery == [ select |-> "", distance |-> Cond("none", <<>>), where |-> <<>> ]

----------------------------------------------------------------------------
(* The handlers *)

\* what json.NewEncoder(w).Encode writes for a []models.Restaurant
JsonList(items) == [null |-> FALSE, items |-> items]

NoResponse == [status |-> 0, kind |-> "none"]
JsonResponse(body) == [status |-> 200, kind |-> "json", body |-> body]
\* http.Error(w, msg, code)
ErrorResponse(code, msg) == [status |-> code, kind |-> "text", body |-> msg]

StatusBadRequest == 400

\* the rows a query returns: for each row, whether ScanRestaurant succeeds
RowSets == UNION { [1..n -> BOOLEAN] : n \in 0..MaxRows }

\* faulty variant: the rows loop stops at the first row that fails to scan
RECURSIVE ScanUntilError(_, _)
ScanUntilError(rs, j) ==
    IF j > Len(rs) \/ ~rs[j] THEN <<>>
    ELSE <<j>> \o ScanUntilError(rs, j + 1)

\* for rows.Next() { if res, err := ScanRestaurant(...); err == nil { append } }
RECURSIVE ScanAll(_, _)
ScanAll(rs, j) ==
    IF j > Len(rs) THEN <<>>
    ELSE (IF rs[j] THEN <<j>> ELSE <<>>) \o ScanAll(rs, j + 1)

\* faulty variant: integer division instead of math.Ceil
TotalPagesFloor(count, limit) == count \div limit

\* int(math.Ceil(float64(totalCount) / float64(limit))), totalCount >= 0
TotalPages(count, limit) == (count + limit - 1) \div limit

\* switch p.Sort
OrderBy(sort) ==
    CASE sort = "rating_desc" -> "ORDER BY rating DESC, id ASC"
      [] sort = "cost_asc"    -> "ORDER BY cost_for_two ASC, id ASC"
      [] OTHER                -> "ORDER BY effective_discount DESC, id ASC"

\* fmt.Sprintf("%s %s LIMIT %d OFFSET %d", resultQ, orderBy, p.Limit, p.Offset)
FinalQuery(rq, sp) ==
    [ select |-> rq.select, distance |-> rq.distance, where |-> rq.where,
      orderBy |-> OrderBy(sp.Sort), limit |-> sp.Limit, offset |-> sp.Offset ]

\* the fixed query of GetRestaurantsByCityHandler
CityQuery ==
    [ select |-> "selectFields", distance |-> Cond("none", <<>>),
      where |-> <<Cond("city_ILIKE", <<1>>), Cond("is_duplicate_false", <<>>)>>,
      orderBy |-> "ORDER BY r.effective_discount DESC", limit |-> 10, offset |-> 0 ]

Call(op, q, a) == [op |-> op, query |-> q, args |-> a]

----------------------------------------------------------------------------
(* Geocoding worker (package worker) *)

\* the source's BatchSize = 200 and WorkerPoolSize = 50, scaled to the model
BatchSize == MaxBatch
WorkerPoolSize == MaxPool

Tables == {"cities", "restaurants"}
Records == Tables \X (1..MaxPending)

\* the closure of a goroutine: fetchCoordinates, db.Exec, then the deferred
\* calls in reverse order of their defer statements: `<-semaphore`, wg.Done()
Stages == {"fetch", "update", "release", "done"}

NoGoroutines == [r \in Records |-> [st \in Stages |-> 0]]

\* a goroutine of record r moves from one stage to another
Move(g, r, from, to) == [g EXCEPT ![r][from] = @ - 1, ![r][to] = @ + 1]
\* a goroutine of record r starts / ends
Start(g, r) == [g EXCEPT ![r]["fetch"] = @ + 1]
Exit(g, r)  == [g EXCEPT ![r]["done"] = @ - 1]

\* rows WHERE geo_status = 'PENDING' of a table
Pending(table) == {r \in Records : r[1] = table /\ geoStatus[r] = "PENDING"}

\* LIMIT BatchSize: the sizes a result set of the pending rows can have
Limited(S) == IF Cardinality(S) < BatchSize THEN Cardinality(S) ELSE BatchSize

\* a result set as the cursor yields it (by id)
RECURSIVE InOrder(_)
InOrder(S) ==
    IF S = {} THEN <<>>
    ELSE LET r == CHOOSE x \in S : \A y \in S : x[2] <= y[2]
         IN  <<r>> \o InOrder(S \ {r})

WorkerInit ==
    /\ ticks = 0
    /\ batch = "none"
    /\ wpc = "tick"
    /\ cursor = <<>>
    /\ wg = 0
    /\ semaphore = 0
    /\ gor = NoGoroutines
    /\ geoStatus = [r \in Records |-> "PENDING"]

\* time.Ticker: every IntervalDuration a tick is sent to ticker.C, and
\* dropped when the channel still holds one
TickerFires ==
    /\ ticks = 0
    /\ ticks' = 1
    /\ UNCHANGED <<batch, wpc, cursor, wg, semaphore, gor, geoStatus>>
    /\ UNCHANGED handlerVars

\* for range ticker.C { processPendingCities(db); ...
LoopReceives ==
    /\ wpc = "tick"
    /\ ticks = 1
    /\ ticks' = 0
    /\ batch' = "cities"
    /\ wpc' = "query"
    /\ UNCHANGED <<cursor, wg, semaphore, gor, geoStatus>>
    /\ UNCHANGED handlerVars

\* the batch function returns: processPendingRestaurants follows
\* processPendingCities, the next receive from ticker.C follows
\* processPendingRestaurants
Return ==
    /\ batch' = IF batch = "cities" THEN "restaurants" ELSE "none"
    /\ wpc' = IF batch = "cities" THEN "query" ELSE "tick"

\* rows, err := db.Query(query); if err != nil { return }
QueryFails ==
    /\ wpc = "query"
    /\ Return
    /\ UNCHANGED <<ticks, cursor, wg, semaphore, gor, geoStatus>>
    /\ UNCHANGED handlerVars

\* if apiKey == "" { return }
ApiKeyMissing ==
    /\ wpc = "query"
    /\ Return
    /\ cursor' = <<>>
    /\ UNCHANGED <<ticks, wg, semaphore, gor, geoStatus>>
    /\ UNCHANGED handlerVars

\* the query answers with at most BatchSize pending rows of the table;
\* var wg sync.WaitGroup; semaphore := make(chan struct{}, WorkerPoolSize)
QueryReturns ==
    /\ wpc = "query"
    /\ \E S \in SUBSET Pending(batch) :
          /\ Cardinality(S) = Limited(Pending(batch))
          /\ cursor' = InOrder(S)
    /\ wg' = 0
    /\ semaphore' = 0
    /\ wpc' = "next"
    /\ UNCHANGED <<ticks, batch, gor, geoStatus>>
    /\ UNCHANGED handlerVars

\* for rows.Next() { if err := rows.Scan(...); err != nil { continue }
ScanFails ==
    /\ wpc = "next"
    /\ cursor # <<>>
    /\ cursor' = Tail(cursor)
    /\ UNCHANGED <<ticks, batch, wpc, wg, semaphore, gor, geoStatus>>
    /\ UNCHANGED handlerVars

\* rows.Scan succeeds; wg.Add(1)
ScanRow ==
    /\ wpc = "next"
    /\ cursor # <<>>
    /\ wg' = wg + 1
    /\ wpc' = "acquire"
    /\ UNCHANGED <<ticks, batch, cursor, semaphore, gor, geoStatus>>
    /\ UNCHANGED handlerVars

\* semaphore <- struct{}{} (blocks while the channel is full);
\* go func(id, ...) {...}(id, ...)
Dispatch ==
    /\ wpc = "acquire"
    /\ semaphore < WorkerPoolSize
    /\ semaphore' = semaphore + 1
    /\ gor' = Start(gor, Head(cursor))
    /\ cursor' = Tail(cursor)
    /\ wpc' = "next"
    /\ UNCHANGED <<ticks, batch, wg, geoStatus>>
    /\ UNCHANGED handlerVars

\* rows.Next() is false: wg.Wait()
RowsExhausted ==
    /\ wpc = "next"
    /\ cursor = <<>>
    /\ wpc' = "wait"
    /\ UNCHANGED <<ticks, batch, cursor, wg, semaphore, gor, geoStatus>>
    /\ UNCHANGED handlerVars

\* faulty variant of WaitReturns: the function returns without wg.Wait()
ReturnsWithoutWait ==
    /\ wpc = "wait"
    /\ Return
    /\ UNCHANGED <<ticks, cursor, wg, semaphore, gor, geoStatus>>
    /\ UNCHANGED handlerVars

\* wg.Wait() returns when the counter is zero; the function returns
WaitReturns ==
    /\ wpc = "wait"
    /\ wg = 0
    /\ Return
    /\ UNCHANGED <<ticks, cursor, wg, semaphore, gor, geoStatus>>
    /\ UNCHANGED handlerVars

\* faulty variant of GeocodeFails: the failure path ends the goroutine with
\* wg.Done() alone, the slot is kept
GeocodeFailsKeepsSlot(r) ==
    /\ gor[r]["fetch"] > 0
    /\ gor' = Move(gor, r, "fetch", "done")
    /\ UNCHANGED <<ticks, batch, wpc, cursor, wg, semaphore, geoStatus>>
    /\ UNCHANGED handlerVars

\* lat, lon, err := fetchCoordinates(...); if err != nil { return }
GeocodeFails(r) ==
    /\ gor[r]["fetch"] > 0
    /\ gor' = Move(gor, r, "fetch", "release")
    /\ UNCHANGED <<ticks, batch, wpc, cursor, wg, semaphore, geoStatus>>
    /\ UNCHANGED handlerVars

\* fetchCoordinates returns coordinates
GeocodeReturns(r) ==
    /\ gor[r]["fetch"] > 0
    /\ gor' = Move(gor, r, "fetch", "update")
    /\ UNCHANGED <<ticks, batch, wpc, cursor, wg, semaphore, geoStatus>>
    /\ UNCHANGED handlerVars

\* _, err = db.Exec(`UPDATE ...`); if err != nil { log }
UpdateFails(r) ==
    /\ gor[r]["update"] > 0
    /\ gor' = Move(gor, r, "update", "release")
    /\ UNCHANGED <<ticks, batch, wpc, cursor, wg, semaphore, geoStatus>>
    /\ UNCHANGED handlerVars

\* UPDATE ... SET ..., geo_status = 'RESOLVED' WHERE id = $3
UpdateReturns(r) ==
    /\ gor[r]["update"] > 0
    /\ gor' = Move(gor, r, "update", "release")
    /\ geoStatus' = [geoStatus EXCEPT ![r] = "RESOLVED"]
    /\ UNCHANGED <<ticks, batch, wpc, cursor, wg, semaphore>>
    /\ UNCHANGED handlerVars

\* defer func() { <-semaphore }()
ReleaseSlot(r) ==
    /\ gor[r]["release"] > 0
    /\ semaphore > 0
    /\ semaphore' = semaphore - 1
    /\ gor' = Move(gor, r, "release", "done")
    /\ UNCHANGED <<ticks, batch, wpc, cursor, wg, geoStatus>>
    /\ UNCHANGED handlerVars

\* defer wg.Done(); the goroutine ends
WgDone(r) ==
    /\ gor[r]["done"] > 0
    /\ wg' = wg - 1
    /\ gor' = Exit(gor, r)
    /\ UNCHANGED <<ticks, batch, wpc, cursor, semaphore, geoStatus>>
    /\ UNCHANGED handlerVars

\* the ticker loop (StartGeocodingWorker's goroutine)
LoopStep ==
    \/ LoopReceives
    \/ QueryFails
    \/ ApiKeyMissing
    \/ QueryReturns
    \/ ScanFails
    \/ ScanRow
    \/ Dispatch
    \/ RowsExhausted
    \/ WaitReturns

\* one goroutine of a batch
GoroutineStep(r) ==
    \/ GeocodeFails(r)
    \/ GeocodeReturns(r)
    \/ UpdateFails(r)
    \/ UpdateReturns(r)
    \/ ReleaseSlot(r)
    \/ WgDone(r)

NextWorker ==
    \/ TickerFires
    \/ LoopStep
    \/ \E r \in Records : GoroutineStep(r)

Init ==
    /\ query = EmptyQuery
    /\ pathCity = ""
    /\ pc = "compose"
    /\ p = NoParams
    /\ countQ = NoQuery
    /\ resultQ = NoQuery
    /\ args = <<>>
    /\ totalCount = 0
    /\ totalPages = 0
    /\ finalQuery = NoQuery
    /\ inflight = {}
    /\ dbLog = <<>>
    /\ dbResults = <<>>
    /\ rows = <<>>
    /\ response = NoResponse
    /\ WorkerInit

\* the client adds one of `keys` to the request it is composing, which
\* carries at most `limit` of them; parameters are written in KeyOrder, so
\* that each request is composed in one way
SetParam(keys, limit) ==
    /\ pc = "compose"
    /\ Cardinality(Supplied(query) \cap keys) < limit
    /\ \E k \in keys :
          /\ \A k2 \in Keys : Position[k2] >= Position[k] => query[k2] = EmptyQuery[k2]
          /\ \E v \in Values(k) : query' = [query EXCEPT ![k] = v]
    /\ UNCHANGED workerVars
    /\ UNCHANGED <<pathCity, pc, p, countQ, resultQ, args, totalCount, totalPages,
                   finalQuery, inflight, dbLog, dbResults, rows, response>>

\* SearchHandler up to db.QueryRow(countQ, args...)
SearchRequest ==
    /\ pc = "compose"
    /\ LET sp == ParseSearchParams(query)
           bq == BuildSearchQueries(sp)
       IN  /\ p' = sp
           /\ countQ' = bq.countQuery
           /\ resultQ' = bq.resultQuery
           /\ args' = bq.args
           /\ inflight' = {"count"}
           /\ dbLog' = Append(dbLog, Call("count", bq.countQuery, bq.args))
    /\ pc' = "count"
    /\ UNCHANGED workerVars
    /\ UNCHANGED <<query, pathCity, totalCount, totalPages, finalQuery, dbResults,
                   rows, response>>

\* faulty variant: the count error is surfaced like a fetch error
CountFailsSurfaced ==
    /\ pc = "count"
    /\ dbResults' = Append(dbResults, "error")
    /\ inflight' = {}
    /\ response' = ErrorResponse(StatusBadRequest, "Something went wrong")
    /\ pc' = "done"
    /\ UNCHANGED workerVars
    /\ UNCHANGED <<query, pathCity, p, countQ, resultQ, args, totalCount, totalPages,
                   finalQuery, dbLog, rows>>

\* if err != nil { encode {"restaurants": [], "pages": 0}; return }
CountFails ==
    /\ pc = "count"
    /\ dbResults' = Append(dbResults, "error")
    /\ inflight' = {}
    /\ response' = JsonResponse([restaurants |-> JsonList(<<>>), pages |-> 0])
    /\ pc' = "done"
    /\ UNCHANGED workerVars
    /\ UNCHANGED <<query, pathCity, p, countQ, resultQ, args, totalCount, totalPages,
                   finalQuery, dbLog, rows>>

\* faulty variant: the fetch is issued together with the count, before it returns
CountReturnsAfterFetchIssued ==
    /\ pc = "count"
    /\ dbResults' = Append(dbResults, "ok")
    /\ \E n \in 0..MaxCount :
          /\ totalCount' = n
          /\ totalPages' = TotalPages(n, p.Limit)
    /\ finalQuery' = FinalQuery(resultQ, p)
    /\ inflight' = {"fetch"}
    /\ dbLog' = <<Call("fetch", FinalQuery(resultQ, p), args)>> \o dbLog
    /\ pc' = "fetch"
    /\ UNCHANGED workerVars
    /\ UNCHANGED <<query, pathCity, p, countQ, resultQ, args, rows, response>>

\* Scan(&totalCount) succeeded: the page check, then db.Query(finalQuery, args...)
CountReturns ==
    /\ pc = "count"
    /\ dbResults' = Append(dbResults, "ok")
    /\ \E n \in 0..MaxCount :
          LET pages == TotalPages(n, p.Limit)
          IN  /\ totalCount' = n
              /\ totalPages' = pages
              /\ IF p.Page > pages /\ pages > 0
                 THEN /\ response' = JsonResponse([restaurants |-> JsonList(<<>>),
                                                   pages |-> pages])
                      /\ inflight' = {}
                      /\ pc' = "done"
                      /\ UNCHANGED <<finalQuery, dbLog>>
                 ELSE /\ finalQuery' = FinalQuery(resultQ, p)
                      /\ inflight' = {"fetch"}
                      /\ dbLog' = Append(dbLog, Call("fetch", FinalQuery(resultQ, p), args))
                      /\ pc' = "fetch"
                      /\ UNCHANGED response
    /\ UNCHANGED workerVars
    /\ UNCHANGED <<query, pathCity, p, countQ, resultQ, args, rows>>

\* if err != nil { http.Error(w, "Something went wrong", 400); return }
FetchFails ==
    /\ pc = "fetch"
    /\ dbResults' = Append(dbResults, "error")
    /\ inflight' = {}
    /\ response' = ErrorResponse(StatusBadRequest, "Something went wrong")
    /\ pc' = "done"
    /\ UNCHANGED workerVars
    /\ UNCHANGED <<query, pathCity, p, countQ, resultQ, args, totalCount, totalPages,
                   finalQuery, dbLog, rows>>

\* the rows loop and the final Encode
FetchReturns ==
    /\ pc = "fetch"
    /\ \E rs \in RowSets :
          /\ rows' = rs
          /\ response' = JsonResponse([restaurants |-> JsonList(ScanAll(rs, 1)),
                                       pages |-> totalPages,
                                       total_count |-> totalCount])
    /\ dbResults' = Append(dbResults, "ok")
    /\ inflight' = {}
    /\ pc' = "done"
    /\ UNCHANGED workerVars
    /\ UNCHANGED <<query, pathCity, p, countQ, resultQ, args, totalCount, totalPages,
                   finalQuery, dbLog>>

\* GetRestaurantsByCityHandler up to db.Query(query, city)
CityRequest ==
    /\ pc = "compose"
    /\ query = EmptyQuery
    /\ \E c \in {"", "Pune"} :
          /\ pathCity' = c
          /\ IF c = ""
             THEN /\ response' = ErrorResponse(StatusBadRequest, "City is required")
                  /\ pc' = "done"
                  /\ UNCHANGED <<inflight, dbLog>>
             ELSE /\ inflight' = {"city"}
                  /\ dbLog' = Append(dbLog, Call("city", CityQuery, <<[s |-> c]>>))
                  /\ pc' = "city"
                  /\ UNCHANGED response
    /\ UNCHANGED workerVars
    /\ UNCHANGED <<query, p, countQ, resultQ, args, totalCount, totalPages,
                   finalQuery, dbResults, rows>>

CityQueryFails ==
    /\ pc = "city"
    /\ dbResults' = Append(dbResults, "error")
    /\ inflight' = {}
    /\ response' = ErrorResponse(StatusBadRequest, "Something went wrong")
    /\ pc' = "done"
    /\ UNCHANGED workerVars
    /\ UNCHANGED <<query, pathCity, p, countQ, resultQ, args, totalCount, totalPages,
                   finalQuery, dbLog, rows>>

CityQueryReturns ==
    /\ pc = "city"
    /\ \E rs \in RowSets :
          /\ rows' = rs
          /\ response' = JsonResponse(JsonList(ScanAll(rs, 1)))
    /\ dbResults' = Append(dbResults, "ok")
    /\ inflight' = {}
    /\ pc' = "done"
    /\ UNCHANGED workerVars
    /\ UNCHANGED <<query, pathCity, p, countQ, resultQ, args, totalCount, totalPages,
                   finalQuery, dbLog>>

ComposeRequest == SetParam(ReqKeys, MaxReqParams)

Next ==
    \/ ComposeRequest
    \/ SearchRequest
    \/ CountFails
    \/ CountReturns
    \/ FetchFails
    \/ FetchReturns
    \/ CityRequest
    \/ CityQueryFails
    \/ CityQueryReturns

\* one request, start to response
Spec == Init /\ [][Next]_vars

ComposeCore == SetParam(CoreKeys, Cardinality(CoreKeys))
ComposeFilters == SetParam(FilterKeys, MaxFilters)

NextBuild ==
    \/ ComposeCore
    \/ ComposeFilters
    \/ SearchRequest
    \/ CityRequest

\* the queries the service generates, over the larger set of filter sets
SpecBuild == Init /\ [][NextBuild]_vars

\* the geocoding worker.  The Go scheduler runs every goroutine that can
\* take a step; fetchCoordinates ends (its http.Client has a 10 s timeout)
\* and the database answers every statement (the open cursor of the batch
\* holds one of the 10 connections of the pool, db.Exec takes another)
SpecWorker ==
    /\ Init
    /\ [][NextWorker]_vars
    /\ WF_vars(LoopStep)
    /\ \A r \in Records : WF_vars(GoroutineStep(r))

----------------------------------------------------------------------------
(* Vocabulary of the properties *)

\* a search request has been parsed and its queries built
Searching == dbLog # <<>> /\ dbLog[1].op = "count"

Ops == {dbLog[j].op : j \in 1..Len(dbLog)}
\* the positions in dbLog of the round trips of one kind
Issued(op) == {j \in 1..Len(dbLog) : dbLog[j].op = op}

Kinds(conds) == {conds[j].kind : j \in 1..Len(conds)}
Matching(conds, kind) == {j \in 1..Len(conds) : conds[j].kind = kind}

PhSet(c) == {c.ph[j] : j \in 1..Len(c.ph)}

\* the placeholders of a template in textual order: the distance expression
\* of the SELECT list, then the WHERE conjuncts
RECURSIVE FlatPh(_)
FlatPh(conds) == IF conds = <<>> THEN <<>> ELSE Head(conds).ph \o FlatPh(Tail(conds))

TextualOrder(qt) == qt.distance.ph \o FlatPh(qt.where)

\* a sequence without the repetitions of earlier elements
RECURSIVE FirstUses(_, _)
FirstUses(seq, seen) ==
    IF seq = <<>> THEN <<>>
    ELSE IF Head(seq) \in seen THEN FirstUses(Tail(seq), seen)
    ELSE <<Head(seq)>> \o FirstUses(Tail(seq), seen \cup {Head(seq)})

GeoKinds == {"ST_Distance", "ST_DWithin_100000", "ST_DWithin_radius"}

Wrapped(str) == [s |-> "%" \o str \o "%"]
Entries(raw, trim) ==
    [j \in 1..Len(Split(raw)) |->
        [cs |-> IF trim THEN TrimSpace(Split(raw)[j]) ELSE Split(raw)[j]]]

\* the values a predicate of the given kind stands for, one per placeholder
\* it prints, by the filter set
Denotes(kind, sp) ==
    CASE kind = "ST_Distance"           -> <<[f |-> sp.Lon], [f |-> sp.Lat]>>
      [] kind = "ST_DWithin_100000"     -> <<[f |-> sp.Lon], [f |-> sp.Lat]>>
      [] kind = "ST_DWithin_radius"     -> <<[f |-> sp.Lon], [f |-> sp.Lat], [f |-> sp.Radius]>>
      [] kind = "city_ILIKE"            -> <<[s |-> sp.City]>>
      [] kind = "name_or_area_ILIKE"    -> <<Wrapped(sp.Name), Wrapped(sp.Name)>>
      [] kind = "area_ILIKE"            -> <<Wrapped(sp.Area)>>
      [] kind = "cuisine_name_ILIKE"    -> <<[s |-> sp.Cuisine]>>
      [] kind = "cuisine_name_IN"       -> Entries(sp.Cuisines, TRUE)
      [] kind = "cuisine_id_IN"         -> Entries(sp.CuisineIds, FALSE)
      [] kind = "meal_type_ILIKE"       -> <<[s |-> sp.MealType]>>
      [] kind = "meal_type_IN"          -> Entries(sp.MealTypes, TRUE)
      [] kind = "meal_type_id_IN"       -> Entries(sp.MealTypeIds, FALSE)
      [] kind = "cost_for_two_GE"       -> <<[i |-> sp.MinCost]>>
      [] kind = "cost_for_two_LE"       -> <<[i |-> sp.MaxCost]>>
      [] kind = "rating_GE"             -> <<[f |-> sp.Rating]>>
      [] kind = "effective_discount_GE" -> <<[f |-> sp.Discount]>>
      [] OTHER                          -> <<>>

\* every placeholder of the predicate is bound to the value it stands for
BoundAsDenoted(c, sp, av) ==
    /\ Len(c.ph) = Len(Denotes(c.kind, sp))
    /\ \A j \in 1..Len(c.ph) :
          /\ c.ph[j] \in 1..Len(av)
          /\ av[c.ph[j]] = Denotes(c.kind, sp)[j]

\* the predicates of the fetch template: distance expression and conjuncts
Predicates(qt) == <<qt.distance>> \o qt.where

----------------------------------------------------------------------------
(* C1..C10 *)

\* C1: placeholders and arguments are built in lock-step.  With N the length
\* of the argument vector: the placeholders of the count and fetch templates
\* together are exactly 1..N; in textual order each newly introduced
\* placeholder is the next index; placeholder i stands for argument i (every
\* predicate's placeholders point at the values that predicate is about);
\* and two predicates share an index only if both are geographic predicates
\* sharing the longitude/latitude pair of the distance expression.
C1_LockStep ==
    pc = "count" =>
        /\ Placeholders(countQ) \cup Placeholders(resultQ) = 1..Len(args)
        /\ FirstUses(TextualOrder(resultQ), {}) = [j \in 1..Len(args) |-> j]
        /\ \A j \in 1..Len(Predicates(resultQ)) :
              BoundAsDenoted(Predicates(resultQ)[j], p, args)
        /\ \A j \in 1..Len(countQ.where) : BoundAsDenoted(countQ.where[j], p, args)
        /\ \A i, j \in 1..Len(Predicates(resultQ)) :
              LET a == Predicates(resultQ)[i]
                  b == Predicates(resultQ)[j]
              IN  (i # j /\ PhSet(a) \cap PhSet(b) # {}) =>
                      /\ a.kind \in GeoKinds /\ b.kind \in GeoKinds
                      /\ PhSet(a) \cap PhSet(b) = PhSet(resultQ.distance)

\* C1 witness: a geographic point with cutoff and radius predicates, a
\* name filter (one index printed twice) and a list filter
C1_Witness ==
    /\ pc = "count"
    /\ {"ST_DWithin_100000", "ST_DWithin_radius", "name_or_area_ILIKE",
        "cuisine_name_IN"} \subseteq Kinds(countQ.where)
    /\ Len(args) >= 6

\* C2: the count template refers to the same placeholder indices as the
\* fetch template, so every argument passed to the count query is referenced
\* by it.
C2_SameCorrespondence ==
    pc = "count" =>
        /\ Placeholders(countQ) = Placeholders(resultQ)
        /\ Placeholders(countQ) = 1..Len(args)

\* C3: the round trips of a search request are strictly sequential.  At most
\* one is in flight and each is issued only after the one before returned;
\* the count query is issued exactly once and first; the fetch query is
\* issued at most once, only after the count query returned successfully;
\* no fetch is issued in a request whose count query failed.
C3_Sequential ==
    /\ Cardinality(inflight) <= 1
    /\ Len(dbResults) <= Len(dbLog)
    /\ Len(dbLog) <= Len(dbResults) + 1
    /\ (inflight = {}) = (Len(dbLog) = Len(dbResults))
    /\ pc \in {"count", "fetch"} => Searching /\ inflight = {pc}
    /\ Searching =>
          /\ Issued("count") = {1}
          /\ Cardinality(Issued("fetch")) <= 1
          /\ "fetch" \in Ops =>
                /\ Issued("fetch") = {2}
                /\ dbResults # <<>> /\ dbResults[1] = "ok"
                /\ "count" \notin inflight
          /\ (dbResults # <<>> /\ dbResults[1] = "error") => "fetch" \notin Ops

\* C3 witness: a request that ran the count and then the fetch to the end
C3_Witness ==
    /\ pc = "done"
    /\ Searching
    /\ Len(dbLog) = 2
    /\ dbResults = <<"ok", "ok">>

\* C4: every non-error response of the search endpoint reports the result
\* list (not null), the total page count and the total matching count.
C4_AllThreeReported ==
    (pc = "done" /\ Searching /\ response.kind = "json") =>
        /\ {"restaurants", "pages", "total_count"} \subseteq DOMAIN response.body
        /\ ~response.body.restaurants.null

\* C5: a failed count query ends the request with a success response with an
\* empty result list and page count 0, and no fetch is executed.
C5_CountFailureMasked ==
    (Searching /\ dbResults # <<>> /\ dbResults[1] = "error") =>
        /\ pc = "done"
        /\ response.status = 200
        /\ response.kind = "json"
        /\ response.body.restaurants = [null |-> FALSE, items |-> <<>>]
        /\ response.body.pages = 0
        /\ Ops = {"count"}
        /\ inflight = {}

\* C5 witness: a search request whose count query failed
C5_Witness ==
    /\ Searching
    /\ dbResults = <<"error">>
    /\ query["page"] = <<"2">>

\* ceil(n / page_size), by its definition: the least k with k * page_size >= n
CeilPages(n) == CHOOSE k \in 0..n : k * DefaultLimit >= n /\ (k - 1) * DefaultLimit < n

\* C6: when the count succeeded and the requested page exceeds
\* ceil(total_count / 12) > 0, the request has ended with an empty result
\* list and that page count, and no fetch was executed (25 matches and page
\* 10: 3 pages).
C6_PageOverflow ==
    (Searching /\ dbResults # <<>> /\ dbResults[1] = "ok"
       /\ p.Page > CeilPages(totalCount) /\ CeilPages(totalCount) > 0) =>
        /\ pc = "done"
        /\ response.status = 200
        /\ response.body.restaurants = [null |-> FALSE, items |-> <<>>]
        /\ response.body.pages = CeilPages(totalCount)
        /\ (totalCount = 25 => response.body.pages = 3)
        /\ "fetch" \notin Ops

\* C6 witness: 25 matches, page 10
C6_Witness ==
    /\ Searching
    /\ dbResults = <<"ok">>
    /\ totalCount = 25
    /\ p.Page = 10
    /\ pc = "done"

\* the rows that scan, in order
Kept(rs) == SelectSeq([j \in 1..Len(rs) |-> j], LAMBDA j : rs[j])

\* C7: a failed fetch query ends the request with a client-error status and
\* the generic message only; a row that fails to decode is dropped and the
\* other rows are returned with a success status.
C7_FetchFailure ==
    (Searching /\ Len(dbResults) = 2) =>
        IF dbResults[2] = "error"
        THEN /\ response.status \in 400..499
             /\ response.kind = "text"
             /\ response.body = "Something went wrong"
        ELSE /\ response.status = 200
             /\ response.kind = "json"
             /\ response.body.restaurants = [null |-> FALSE, items |-> Kept(rows)]

\* C7 witness: the fetch query failed
C7_Witness ==
    /\ Searching
    /\ dbResults = <<"ok", "error">>
    /\ response.status = 400

\* the radius in effect for a request with a geographic point
EffectiveRadius(q) ==
    IF q["radius"] = <<>> \/ FLe0(ParseFloat(q["radius"]))
    THEN FNum(50000 * FScale)
    ELSE ParseFloat(q["radius"])

\* C8: with a city the radius predicate is never in the WHERE clause; with a
\* geographic point and no city it is there exactly once and its radius
\* placeholder is bound to the effective radius.
C8_CityExcludesRadius ==
    pc = "count" =>
        \A w \in {countQ.where, resultQ.where} :
            /\ p.City # "" => Matching(w, "ST_DWithin_radius") = {}
            /\ (p.HasLocation /\ p.City = "") =>
                  /\ Cardinality(Matching(w, "ST_DWithin_radius")) = 1
                  /\ \A j \in Matching(w, "ST_DWithin_radius") :
                        /\ Len(w[j].ph) = 3
                        /\ w[j].ph[3] \in 1..Len(args)
                        /\ args[w[j].ph[3]] = [f |-> EffectiveRadius(query)]

\* C8 witness: a city together with a geographic point and a radius
C8_Witness ==
    /\ pc = "count"
    /\ p.City # ""
    /\ p.HasLocation
    /\ query["radius"] = <<"1", "0", "0">>

DefaultOrder == "ORDER BY effective_discount DESC, id ASC"

\* C9: every sort key other than "rating_desc" and "cost_asc" gives the
\* discount-descending order, and whenever that order is applied with a
\* geographic point the 100000-meter cutoff is in the WHERE clause.
C9_DefaultSortCutoff ==
    pc = "fetch" =>
        /\ p.Sort \notin {"rating_desc", "cost_asc"} => finalQuery.orderBy = DefaultOrder
        /\ (finalQuery.orderBy = DefaultOrder /\ p.HasLocation) =>
              "ST_DWithin_100000" \in Kinds(finalQuery.where)

\* C10: the duplicate exclusion is in every query the service generates (the
\* search count query, the search fetch query, the city-listing query), and
\* in the search WHERE clause it is there once, as the last conjunct.
C10_DuplicateExclusion ==
    /\ \A j \in 1..Len(dbLog) : "is_duplicate_false" \in Kinds(dbLog[j].query.where)
    /\ pc = "count" =>
          \A w \in {countQ.where, FinalQuery(resultQ, p).where} :
              /\ w # <<>>
              /\ Matching(w, "is_duplicate_false") = {Len(w)}

\* C10 witness: a filter set with the free-only flag and other filters
C10_Witness ==
    /\ pc = "count"
    /\ p.Free
    /\ Len(countQ.where) >= 4

----------------------------------------------------------------------------
(* C11..C15 *)

\* the four comma list filters: the raw list of the filter set and the kind
\* of the IN-subquery predicate it gives
ListForms(sp) ==
    { [raw |-> sp.Cuisines,    kind |-> "cuisine_name_IN"],
      [raw |-> sp.CuisineIds,  kind |-> "cuisine_id_IN"],
      [raw |-> sp.MealTypes,   kind |-> "meal_type_IN"],
      [raw |-> sp.MealTypeIds, kind |-> "meal_type_id_IN"] }

\* the predicate of a list of k entries prints k consecutive placeholders,
\* bound in list order to the entries trimmed of surrounding whitespace
TrimmedInList(c, raw, av) ==
    LET entries == Split(raw)
    IN  /\ Len(c.ph) = Len(entries)
        /\ \A i \in 1..Len(c.ph) :
              /\ c.ph[i] = c.ph[1] + (i - 1)
              /\ c.ph[i] \in 1..Len(av)
              /\ av[c.ph[i]] = [cs |-> TrimSpace(entries[i])]

\* C11: every comma list filter (cuisines, mealtypes, cuisineIds,
\* mealtypeIds) with k entries gives one IN-subquery predicate with exactly
\* k consecutive placeholders and k arguments in list order, each argument
\* being the entry trimmed of surrounding whitespace; when several forms are
\* present each has its own predicate in the WHERE conjunction.
C11_ListFilters ==
    pc = "count" =>
        \A w \in {countQ.where, resultQ.where} :
            \A f \in ListForms(p) :
                IF f.raw = <<>>
                THEN Matching(w, f.kind) = {}
                ELSE /\ Cardinality(Matching(w, f.kind)) = 1
                     /\ \A j \in Matching(w, f.kind) : TrimmedInList(w[j], f.raw, args)

\* the float64 arguments, and those a rating or discount predicate refers to
FloatArgs(av) == {j \in 1..Len(av) : "f" \in DOMAIN av[j]}
ThresholdArgs(conds) ==
    UNION {PhSet(conds[j]) : j \in Matching(conds, "rating_GE")
                                   \cup Matching(conds, "effective_discount_GE")}

\* C12: geographic mode is all-or-none.  It is active exactly when lat and
\* lon are both non-empty; when active the radius is the supplied radius if
\* that is positive and 50000 otherwise; when inactive latitude, longitude
\* and radius are zero and there is no distance expression, no cutoff
\* predicate, no radius predicate and no longitude/latitude argument.
C12_GeoAllOrNone ==
    pc = "count" /\ Searching =>
        /\ p.HasLocation = (query["lat"] # <<>> /\ query["lon"] # <<>>)
        /\ p.HasLocation =>
              p.Radius = IF FGt0(ParseFloat(query["radius"]))
                         THEN ParseFloat(query["radius"])
                         ELSE FNum(50000 * FScale)
        /\ ~p.HasLocation =>
              /\ p.Lat = FZero /\ p.Lon = FZero /\ p.Radius = FZero
              /\ resultQ.distance.kind # "ST_Distance"
              /\ Kinds(countQ.where) \cap GeoKinds = {}
              /\ Kinds(resultQ.where) \cap GeoKinds = {}
              /\ FloatArgs(args) \subseteq ThresholdArgs(countQ.where)

\* C13: the single meal-type name is accepted under the key "mealtype" as
\* under "meal_type": a request with a non-empty mealtype parameter has that
\* value as the meal-type name of its filter set, and the meal-type
\* predicate is in the WHERE clause, bound to it.
C13_MealTypeKey ==
    (pc = "count" /\ Searching /\ query["mealtype"] # "") =>
        /\ p.MealType = query["mealtype"]
        /\ \A w \in {countQ.where, resultQ.where} :
              /\ Cardinality(Matching(w, "meal_type_ILIKE")) = 1
              /\ \A j \in Matching(w, "meal_type_ILIKE") :
                    /\ Len(w[j].ph) = 1
                    /\ w[j].ph[1] \in 1..Len(args)
                    /\ args[w[j].ph[1]] = [s |-> query["mealtype"]]

\* C14: for every page parameter the normalized page is at least 1 (1 when
\* the parameter is absent, zero, negative or unparsable) and the offset is
\* (page - 1) x 12 exactly: a non-negative multiple of 12 whose quotient by
\* 12 is page - 1, with no wrap-around.
C14_PageOffset ==
    Searching =>
        /\ p.Page >= 1
        /\ query["page"] \in {<<>>, <<"0">>, <<"-", "1">>, <<"x">>} => p.Page = 1
        /\ query["page"] = <<"1", "0">> => p.Page = 10
        /\ p.Limit = 12
        /\ p.Offset >= 0
        /\ p.Offset % 12 = 0
        /\ p.Offset \div 12 = p.Page - 1

\* C15: no fetch is executed with an out-of-range OFFSET.  Whenever a search
\* request has issued its fetch query (the count succeeded), the OFFSET of
\* that query is not negative, and for a page greater than 1 it is below
\* total_count (so no fetch at all when total_count = 0 and page > 1).
C15_OffsetInRange ==
    (Searching /\ "fetch" \in Ops) =>
        \A j \in Issued("fetch") :
            /\ dbLog[j].query.offset >= 0
            /\ p.Page > 1 => dbLog[j].query.offset < totalCount

----------------------------------------------------------------------------
(* C16, C17 *)

RECURSIVE Sum(_, _)
Sum(f, S) == IF S = {} THEN 0
             ELSE LET x == CHOOSE y \in S : TRUE IN f[x] + Sum(f, S \ {x})

\* how many goroutines of record r stand at one of the stages
At(r, stages) == Sum(gor[r], stages)
\* goroutines started and not yet ended
InFlight == Sum([r \in Records |-> At(r, Stages)], Records)
\* goroutines that have not yet given back their slot
SlotHolders == Sum([r \in Records |-> At(r, {"fetch", "update", "release"})], Records)

\* the dispatch loop stands at `semaphore <- struct{}{}` with the channel full
Blocked == wpc = "acquire" /\ semaphore = WorkerPoolSize

BetweenBatches == wpc \in {"tick", "query"}

\* the order in which the ticker loop enters and leaves the batch functions
BatchOrder ==
    batch' # batch =>
        \/ batch = "none" /\ batch' = "cities" /\ wpc = "tick"
        \/ batch = "cities" /\ batch' = "restaurants"
        \/ batch = "restaurants" /\ batch' = "none"

\* C17: geocoding batches never overlap.  A batch function returns only
\* when every goroutine it started has ended, with the wait-group counter
\* at zero and the semaphore empty; the ticker loop runs the city batch,
\* then the restaurant batch, and starts the next tick's batches only from
\* its receive on ticker.C, after both returned; every goroutine works on a
\* record of the batch under way, and no record has two goroutines at once.
C17_NoOverlap ==
    /\ [](/\ BetweenBatches => (InFlight = 0 /\ wg = 0 /\ semaphore = 0)
          /\ batch = "none" <=> wpc = "tick"
          /\ \A r \in Records :
                /\ At(r, Stages) <= 1
                /\ At(r, Stages) = 1 => r[1] = batch)
    /\ [][BatchOrder]_vars

\* C17 witness: both batches of a tick have returned, a restaurant has its
\* coordinates, a city is still pending (the next tick selects it again),
\* and the next tick is already waiting in ticker.C
C17_Witness ==
    /\ wpc = "tick"
    /\ ticks = 1
    /\ \E i \in 1..MaxPending : geoStatus[<<"restaurants", i>>] = "RESOLVED"
    /\ \E i \in 1..MaxPending : geoStatus[<<"cities", i>>] = "PENDING"

====
